---- MODULE Spec2Model ----
(***************************************************************************)
(* A model of the ViT-SNGP training script, baselines/jft/sngp.py:         *)
(*   - main(): start-up (resume precedence), the training loop, the        *)
(*     asynchronous checkpoint writer on the thread pool, the validation   *)
(*     loop and the final flush;                                           *)
(*   - accumulate_gradient_with_states(): the gradient accumulator;        *)
(*   - evaluation_fn() and the accumulation of its results per split;      *)
(*   - update_fn(): the optimizer update followed by weight decay;         *)
(*   - a job that is interrupted and started again on its output path.     *)
(* Optimizer and auxiliary state are represented by the number of          *)
(* training updates folded into them.                                      *)
(***************************************************************************)
EXTENDS Integers, Sequences, FiniteSets, TLC

VARIABLES
  config,                  \* FLAGS.config together with what start-up finds on disk
  pc,                      \* position of main()
  err,                     \* the exception that ended main(), "" if none
  resume_checkpoint_path,  \* "none" | "out" | "resume"
  first_step,
  step,                    \* the python loop variable
  opt_cpu, states_cpu,     \* host copies
  opt_repl, states_repl,   \* replicated (device) copies
  checkpoint_extra,        \* the dict: accum_train_time
  checkpoint_writer,       \* index into tasks of the last AsyncResult, 0 = None
  tasks,                   \* what was handed to pool.apply_async, in order
  ckpt_file,               \* content of save_checkpoint_path
  kept,                    \* steps of permanently retained copies
  chrono,                  \* u.Chrono: paused flag and accumulated train time
  mw,                      \* the metric writer
  updates,                 \* history: the steps at which update_fn ran
  lr_iter,                 \* the learning-rate stream: map(lr_fn, range(...))
  lrs,                     \* history: the lr_repl each update_fn call was given
  past,                    \* history: the runs of this job an interruption ended
  acc,                     \* one call of accumulate_gradient_with_states
  upd                      \* one call of update_fn: the parameters it returns

vars == <<config, pc, err, resume_checkpoint_path, first_step, step, opt_cpu,
          states_cpu, opt_repl, states_repl, checkpoint_extra,
          checkpoint_writer, tasks, ckpt_file, kept, chrono, mw, updates,
          lr_iter, lrs, past, acc, upd>>

mainVars == <<config, pc, err, resume_checkpoint_path, first_step, step,
              opt_cpu, states_cpu, opt_repl, states_repl, checkpoint_extra,
              checkpoint_writer, tasks, ckpt_file, kept, chrono, mw, updates,
              lr_iter, lrs, past>>

----------------------------------------------------------------------------
(* Bounds of the model *)

MaxSteps == 3        \* config.total_steps ranges over 1..MaxSteps
MaxBatch == 4        \* train batch sizes 1..MaxBatch in the accumulator
MaxVal == 5          \* a validation split holds 0..MaxVal examples
NumDevices == 2      \* jax.device_count()
PerDevice == 2       \* per-device eval batch size
MaxRestarts == 1     \* how often a job is interrupted and started again

----------------------------------------------------------------------------
(* Checkpoint records: {opt, states, extra} *)

NoCkpt == [exists |-> FALSE, opt |-> 0, states |-> 0, extra |-> 0]

Ckpt(o, s, x) == [exists |-> TRUE, opt |-> o, states |-> s, extra |-> x]

\* Records an earlier run of this program left behind at the output path,
\* written at step k (a run with a larger step budget may have written it).
OutSteps == {1, MaxSteps + 1}

\* The record a configured config.resume path holds, when it exists.
ResumeSteps == {2}

----------------------------------------------------------------------------
(* Arithmetic helpers *)

\* The sum of the first n elements of a vector
RECURSIVE Sum(_, _)
Sum(v, n) == IF n = 0 THEN 0 ELSE v[n] + Sum(v, n - 1)

CeilDiv(a, b) == (a + b - 1) \div b

MaxOf(row) == CHOOSE m \in {row[i] : i \in DOMAIN row} :
                 \A i \in DOMAIN row : row[i] <= m

\* jnp.argmax: the first index holding the maximum
ArgMax(row) == CHOOSE i \in DOMAIN row :
                 /\ row[i] = MaxOf(row)
                 /\ \A j \in DOMAIN row : row[j] = MaxOf(row) => i <= j

\* A number as the quotient num/den, or what a division by zero gives:
\* python ints raise ZeroDivisionError, numpy floats give nan or inf.
Value(n, d) == [kind |-> "value", num |-> n, den |-> d]

Divide(a, b, isfloat) ==
  IF b # 0 THEN Value(a, b)
  ELSE IF ~isfloat THEN [kind |-> "ZeroDivisionError", num |-> 0, den |-> 0]
  ELSE IF a = 0 THEN [kind |-> "nan", num |-> 0, den |-> 0]
  ELSE [kind |-> "inf", num |-> 0, den |-> 0]

----------------------------------------------------------------------------
(* Validation data and the evaluation function *)

LabelRows == {<<0, 0>>, <<1, 0>>, <<0, 1>>}

LogitRows == {<<1, 0>>, <<0, 1>>}

\* An example of a split as the evaluation sees it: its labels, the logits
\* the model gives it and the per-example loss the loss function gives it.
Examples == [mask : {1}, labels : LabelRows, logits : LogitRows, loss : {1}]

\* What the input pipeline pads an incomplete batch with.
PadEntry == [mask |-> 0, labels |-> <<0, 0>>, logits |-> <<1, 0>>, loss |-> 1]

batch_size_eval == NumDevices * PerDevice

\* _get_val_split: val_steps, with ceil rounding to include the last batch
ValSteps(split) == CeilDiv(Len(split), batch_size_eval)

\* Entry i of device d of batch b of the split (drop_remainder=False, padded)
BatchEntry(split, b, d, i) ==
  LET k == (b - 1) * batch_size_eval + (d - 1) * PerDevice + i
  IN  IF k <= Len(split) THEN split[k] ELSE PadEntry

ValBatch(split, b) ==
  [d \in 1..NumDevices |-> [i \in 1..PerDevice |-> BatchEntry(split, b, d, i)]]

\* jax.lax.psum over axis 'batch': the elementwise sum over the devices
PSum(vecs) ==
  [i \in 1..PerDevice |->
     Sum([d \in 1..NumDevices |-> vecs[d][i]], NumDevices)]

\* mask *= labels.max(axis=1)
\* (faulty variant: the all-zero label rows are not masked)
EvalMaskMutNoLabelMask(e) == e.mask

EvalMask(e) == e.mask * MaxOf(e.labels)

\* take_along_axis(labels, argmax(logits)): the label at the top-1 index
Top1Correct(e) == e.labels[ArgMax(e.logits)]

\* evaluation_fn under pmap: every device returns the same psum'd arrays
evaluation_fn(batch) ==
  LET nc == PSum([d \in 1..NumDevices |->
                    [i \in 1..PerDevice |->
                       Top1Correct(batch[d][i]) * EvalMask(batch[d][i])]])
      ls == PSum([d \in 1..NumDevices |->
                    [i \in 1..PerDevice |->
                       batch[d][i].loss * EvalMask(batch[d][i])]])
      n  == PSum([d \in 1..NumDevices |->
                    [i \in 1..PerDevice |-> EvalMask(batch[d][i])]])
  IN  [ncorrect |-> [d \in 1..NumDevices |-> nc],
       loss     |-> [d \in 1..NumDevices |-> ls],
       n        |-> [d \in 1..NumDevices |-> n]]

\* The loop over val_steps batches of one split, for one of the three sums
\* q: ncorrect += np.sum(np.array(batch_ncorrect[0])), and so for loss, nseen
RECURSIVE ValLoop(_, _, _)
ValLoop(split, b, q) ==
  IF b > ValSteps(split) THEN 0
  ELSE Sum(evaluation_fn(ValBatch(split, b))[q][1], PerDevice)
         + ValLoop(split, b + 1, q)

\* ncorrect, loss, nseen start as python ints and are numpy floats once a
\* batch has been added
SumsAreFloat(split) == ValSteps(split) > 0

\* val_loss = loss / nseen
ValLoss(split) ==
  Divide(ValLoop(split, 1, "loss"), ValLoop(split, 1, "n"), SumsAreFloat(split))

\* ncorrect / nseen
Prec(split) ==
  Divide(ValLoop(split, 1, "ncorrect"), ValLoop(split, 1, "n"), SumsAreFloat(split))

----------------------------------------------------------------------------
(* The gradient accumulator *)

\* Quotients num/den, compared by cross-multiplication
RAdd(a, b) == <<a[1] * b[2] + b[1] * a[2], a[2] * b[2]>>

RDiv(a, n) == <<a[1], a[2] * n>>

REq(a, b) == a[1] * b[2] = b[1] * a[2]

\* The loss of one example under parameters (kernel, bias), and its gradient
ExampleLoss(params, img, lbl) ==
  (params[1] * img + params[2] - lbl) * (params[1] * img + params[2] - lbl)

ExampleGrad(params, img, lbl) ==
  <<2 * (params[1] * img + params[2] - lbl) * img,
    2 * (params[1] * img + params[2] - lbl)>>

\* jax.value_and_grad(loss_fn, has_aux=True): the mean loss of the batch, the
\* auxiliary state with the batch folded in, and the gradient of the mean loss
loss_and_grad_fn(params, states, images, labels) ==
  LET n == Len(images)
  IN  [l |-> <<Sum([k \in 1..n |-> ExampleLoss(params, images[k], labels[k])], n), n>>,
       s |-> states + n,
       g |-> <<<<Sum([k \in 1..n |-> ExampleGrad(params, images[k], labels[k])[1]], n), n>>,
               <<Sum([k \in 1..n |-> ExampleGrad(params, images[k], labels[k])[2]], n), n>>>>]

\* jax.lax.dynamic_slice(x, (start, ...), (size, ...)), start counted from 0
dynamic_slice(x, start, size) == SubSeq(x, start + 1, start + size)

\* Where sub-batch i starts
\* (faulty variant: the stride is forgotten)
SliceStartMutNoStride(i, step_size) == i

SliceStart(i, step_size) == i * step_size

\* acc_grad_and_loss(i, (l, s, g)) for i = from .. accum_steps - 1
RECURSIVE fori_loop(_, _, _, _, _, _, _)
fori_loop(i, accum_steps, step_size, params, images, labels, lsg) ==
  IF i >= accum_steps THEN lsg
  ELSE LET r == loss_and_grad_fn(
                  params, lsg.s,
                  dynamic_slice(images, SliceStart(i, step_size), step_size),
                  dynamic_slice(labels, SliceStart(i, step_size), step_size))
       IN  fori_loop(i + 1, accum_steps, step_size, params, images, labels,
                     [l |-> RAdd(lsg.l, r.l),
                      s |-> r.s,
                      g |-> <<RAdd(lsg.g[1], r.g[1]), RAdd(lsg.g[2], r.g[2])>>])

\* accum_steps = 0 stands for None
accumulate_gradient_with_states(params, states, images, labels, accum_steps) ==
  IF accum_steps > 1
    THEN LET step_size == Len(images) \div accum_steps
             first == loss_and_grad_fn(params, states,
                                       SubSeq(images, 1, step_size),
                                       SubSeq(labels, 1, step_size))
             lsg == fori_loop(1, accum_steps, step_size, params, images,
                              labels, first)
         IN  [l |-> RDiv(lsg.l, accum_steps),
              s |-> lsg.s,
              g |-> <<RDiv(lsg.g[1], accum_steps), RDiv(lsg.g[2], accum_steps)>>]
    ELSE loss_and_grad_fn(params, states, images, labels)

----------------------------------------------------------------------------
(* The configuration and what start-up finds on disk *)

\* Validation splits of the training runs: an empty split, a split whose
\* only batch is masked out (all-zero labels), and an ordinary one.
EmptySplit == <<>>

MaskedSplit == <<[mask |-> 1, labels |-> <<0, 0>>, logits |-> <<1, 0>>, loss |-> 1]>>

PlainSplit == <<[mask |-> 1, labels |-> <<1, 0>>, logits |-> <<1, 0>>, loss |-> 1],
                [mask |-> 1, labels |-> <<0, 1>>, logits |-> <<1, 0>>, loss |-> 1]>>

ValDsChoices == {<<PlainSplit>>, <<EmptySplit>>, <<MaskedSplit>>}

Configs ==
  [total_steps           : 1..MaxSteps,
   checkpoint_steps      : {0, 1, 2},       \* 0: not set
   keep_checkpoint_steps : {0, 2, 3},       \* 0: not set
   checkpoint_timeout    : {1},
   log_training_steps    : {2},
   log_eval_steps        : {0, 2},          \* 0: not set
   fewshot_log_steps     : {0, 2},          \* 0: no 'fewshot' in config
   host                  : {0, 1},          \* jax.host_id()
   resume                : BOOLEAN,         \* config.resume is set
   resume_file           : {NoCkpt} \cup {Ckpt(k, k, k) : k \in ResumeSteps},
   model_init            : BOOLEAN,         \* config.model_init is set
   out_file              : {NoCkpt} \cup {Ckpt(k, k, k) : k \in OutSteps},
   val_ds                : ValDsChoices]

\* host=None of u.itstime: the action is for every host
AnyHost == -1

\* u.itstime(step, every_n_steps, total_steps, host=None): on the given host,
\* at every n-th step, at the last step and at the first step.
itstime(s, every_n_steps, total, host) ==
  /\ host = AnyHost \/ config.host = host
  /\ every_n_steps # 0
  /\ \/ s % every_n_steps = 0
     \/ s = total
     \/ s = 1

\* No call of the accumulator is followed
NoAcc == [phase |-> "off"]

\* No call of the Update Step's parameter update is followed
NoUpd == [phase |-> "off"]

\* The learning-rate schedule lr_fn, a function of the step index: a linear
\* decay, in units of the rate of the last step.
lr_fn(i) == MaxSteps - i

\* map(lr_fn, range(first_step, total_steps)): the indices still to come
\* (faulty variant: the schedule starts over at index 0 in a resumed run)
LrIterMutFromZero(first, total) == [next |-> 0, stop |-> total]

LrIter(first, total) == [next |-> first, stop |-> total]

\* The state of main() as it is entered under configuration c
InitMain(c) ==
  /\ config = c
  /\ pc = "init"
  /\ err = ""
  /\ resume_checkpoint_path = "none"
  /\ first_step = 0
  /\ step = 0
  /\ opt_cpu = 0 /\ states_cpu = 0
  /\ opt_repl = 0 /\ states_repl = 0
  /\ checkpoint_extra = 0
  /\ checkpoint_writer = 0
  /\ tasks = <<>>
  /\ ckpt_file = c.out_file
  /\ kept = {}
  /\ chrono = [paused |-> FALSE, accum_train_time |-> 0, prev_step |-> 0]
  /\ mw = [closed |-> FALSE, log |-> <<>>]
  /\ updates = <<>>
  /\ lr_iter = LrIter(0, 0)
  /\ lrs = <<>>
  /\ past = <<>>

Init ==
  /\ \E c \in Configs :
       /\ ~c.resume => c.resume_file = NoCkpt
       /\ InitMain(c)
  /\ acc = NoAcc
  /\ upd = NoUpd

Raise(e) == pc' = "failed" /\ err' = e

----------------------------------------------------------------------------
(* main(): start-up *)

\* save_checkpoint_path is set only when config.checkpoint_steps is
save_checkpoint_path == config.checkpoint_steps # 0

\* The settings check for retained copies
KeepSettingsOk ==
  config.keep_checkpoint_steps # 0 =>
    /\ config.checkpoint_steps # 0
    /\ config.keep_checkpoint_steps % config.checkpoint_steps = 0

\* Decide how to initialize training; the order is important.
\* (faulty variant: config.resume is looked at first)
ResumePathMutResumeFirst ==
  IF config.resume THEN "resume"
  ELSE IF save_checkpoint_path /\ ckpt_file.exists THEN "out"
  ELSE "none"

ResumePath ==
  IF save_checkpoint_path /\ ckpt_file.exists THEN "out"
  ELSE IF config.resume THEN "resume"
  ELSE "none"

\* The file a resume path names
FileAt(path) == IF path = "out" THEN ckpt_file ELSE config.resume_file

\* u.load_checkpoint(tree, path): the record at the path, which must exist
load_checkpoint(path) ==
  IF FileAt(path).exists THEN FileAt(path)
  ELSE [exists |-> FALSE, opt |-> 0, states |-> 0, extra |-> 0]

\* What follows the choice of the initial optimizer and auxiliary state:
\* first_step, the chronometer, replication.
KickOff(o, s, x) ==
  /\ opt_cpu' = o /\ states_cpu' = s /\ checkpoint_extra' = x
  /\ first_step' = o
  /\ step' = o
  /\ chrono' = [paused |-> FALSE, accum_train_time |-> x, prev_step |-> o]
  /\ lr_iter' = LrIter(o, config.total_steps)
  /\ opt_repl' = o /\ states_repl' = s
  /\ pc' = "loop"
  /\ err' = err

Startup ==
  /\ pc = "init"
  /\ IF ~KeepSettingsOk
       THEN /\ Raise("AssertionError")
            /\ UNCHANGED <<resume_checkpoint_path, first_step, step, opt_cpu,
                           states_cpu, opt_repl, states_repl, checkpoint_extra,
                           chrono, lr_iter>>
       ELSE /\ resume_checkpoint_path' = ResumePath
            /\ IF ResumePath # "none"
                 THEN \* loading raises when the path does not exist
                      IF load_checkpoint(ResumePath).exists
                        THEN KickOff(load_checkpoint(ResumePath).opt,
                                     load_checkpoint(ResumePath).states,
                                     load_checkpoint(ResumePath).extra)
                        ELSE /\ Raise("MissingCheckpointError")
                             /\ UNCHANGED <<first_step, step, opt_cpu,
                                            states_cpu, opt_repl, states_repl,
                                            checkpoint_extra, chrono, lr_iter>>
                 ELSE IF config.model_init
                        THEN /\ Raise("ValueError")
                             /\ UNCHANGED <<first_step, step, opt_cpu,
                                            states_cpu, opt_repl, states_repl,
                                            checkpoint_extra, chrono, lr_iter>>
                        ELSE KickOff(0, 0, 0)
  /\ UNCHANGED <<config, checkpoint_writer, tasks, ckpt_file, kept, mw,
                 updates, lrs, past, acc, upd>>

----------------------------------------------------------------------------
(* main(): the training loop *)

\* update_fn: one Update Step replaces the optimizer and the auxiliary state
\* (faulty variant: the optimizer's step counter is not advanced)
update_fnMutNoStepCount(opt, states) == <<opt, states + 1>>

update_fn(opt, states) == <<opt + 1, states + 1>>

\* The last value of range(first_step + 1, total_steps + 1)
\* (faulty variant: range(first_step + 1, total_steps))
LoopRangeLastMutOffByOne == config.total_steps - 1

LoopRangeLast == config.total_steps

\* for step, train_batch, lr_repl in zip(range(first_step + 1, total_steps + 1),
\* train_iter, lr_iter): the step runs while both the range and the
\* learning-rate stream yield a value; update_fn is given that lr_repl
TrainStep ==
  /\ pc = "loop"
  /\ step + 1 <= LoopRangeLast
  /\ lr_iter.next < lr_iter.stop
  /\ step' = step + 1
  /\ lr_iter' = [lr_iter EXCEPT !.next = @ + 1]
  /\ lrs' = Append(lrs, lr_fn(lr_iter.next))
  /\ opt_repl' = update_fn(opt_repl, states_repl)[1]
  /\ states_repl' = update_fn(opt_repl, states_repl)[2]
  /\ updates' = Append(updates, step + 1)
  /\ pc' = "checkpoint"
  /\ UNCHANGED <<config, err, resume_checkpoint_path, first_step, opt_cpu,
                 states_cpu, checkpoint_extra, checkpoint_writer, tasks,
                 ckpt_file, kept, chrono, mw, past, acc, upd>>

\* The range or the learning-rate stream is exhausted: zip ends the loop
LoopEnd ==
  /\ pc = "loop"
  /\ step + 1 > LoopRangeLast \/ lr_iter.next >= lr_iter.stop
  /\ pc' = "finish"
  /\ UNCHANGED <<config, err, resume_checkpoint_path, first_step, step, opt_cpu,
                 states_cpu, opt_repl, states_repl, checkpoint_extra,
                 checkpoint_writer, tasks, ckpt_file, kept, chrono, mw,
                 updates, acc,
                 upd, lr_iter, lrs, past>>

(* Checkpoint saving *)

CheckpointSkip ==
  /\ pc = "checkpoint"
  /\ ~itstime(step, config.checkpoint_steps, config.total_steps, 0)
  /\ pc' = "report"
  /\ UNCHANGED <<config, err, resume_checkpoint_path, first_step, step, opt_cpu,
                 states_cpu, opt_repl, states_repl, checkpoint_extra,
                 checkpoint_writer, tasks, ckpt_file, kept, chrono, mw,
                 updates, acc,
                 upd, lr_iter, lrs, past>>

\* write_note('Checkpointing...'); chrono.pause()
CheckpointBegin ==
  /\ pc = "checkpoint"
  /\ itstime(step, config.checkpoint_steps, config.total_steps, 0)
  /\ chrono' = [chrono EXCEPT !.paused = TRUE]
  /\ pc' = "ckpt_wait"
  /\ UNCHANGED <<config, err, resume_checkpoint_path, first_step, step, opt_cpu,
                 states_cpu, opt_repl, states_repl, checkpoint_extra,
                 checkpoint_writer, tasks, ckpt_file, kept, mw, updates, acc,
                 upd, lr_iter, lrs, past>>

\* u.checkpointing_timeout(writer, timeout): writer.get(timeout) returns when
\* the write is done, re-raises what the write raised, and raises a
\* TimeoutError when the write is still pending as the timeout expires.
checkpointing_timeout(writer) ==
  IF writer = 0 THEN "returns"
  ELSE IF tasks[writer].status = "done" THEN "returns"
  ELSE IF tasks[writer].status = "failed" THEN "raises"
  ELSE "pending"

\* The wait on the previous save, before a new one is built
\* (faulty variant: the wait is left out)
WaitPreviousSaveMutNoWait == "returns"

WaitPreviousSave == checkpointing_timeout(checkpoint_writer)

\* The weights are transferred to the host now: device 0's copies
\* (faulty variant: the auxiliary state is not transferred again)
HostCopiesMutStaleStates == <<opt_repl, states_cpu>>

HostCopies == <<opt_repl, states_repl>>

\* Whether to keep a copy of the current checkpoint: copy_step, 0 for None
\* (faulty variant: a copy of every checkpoint is kept)
CopyStepMutEverySave == step

CopyStep ==
  IF itstime(step, config.keep_checkpoint_steps, config.total_steps, AnyHost)
    THEN step ELSE 0

\* The previous write is done: build the checkpoint and hand it to the pool
CheckpointSubmit ==
  /\ pc = "ckpt_wait"
  /\ WaitPreviousSave = "returns"
  /\ checkpoint_extra' = chrono.accum_train_time
  /\ opt_cpu' = HostCopies[1]
  /\ states_cpu' = HostCopies[2]
  /\ tasks' = Append(tasks, [opt |-> HostCopies[1], states |-> HostCopies[2],
                             extra |-> 0, copy_step |-> CopyStep,
                             step |-> step, status |-> "queued",
                             handoff_extra |-> chrono.accum_train_time])
  /\ checkpoint_writer' = Len(tasks) + 1
  /\ chrono' = [chrono EXCEPT !.paused = FALSE]
  /\ pc' = "report"
  /\ UNCHANGED <<config, err, resume_checkpoint_path, first_step, step,
                 opt_repl, states_repl, ckpt_file, kept, mw, updates, acc,
                 upd, lr_iter, lrs, past>>

\* The previous write failed: writer.get() re-raises its exception
CheckpointWriteError ==
  /\ pc = "ckpt_wait"
  /\ WaitPreviousSave = "raises"
  /\ Raise("CheckpointWriteError")
  /\ UNCHANGED <<config, resume_checkpoint_path, first_step, step, opt_cpu,
                 states_cpu, opt_repl, states_repl, checkpoint_extra,
                 checkpoint_writer, tasks, ckpt_file, kept, chrono, mw,
                 updates, acc,
                 upd, lr_iter, lrs, past>>

\* The previous write is still pending when the timeout expires
CheckpointTimeout ==
  /\ pc = "ckpt_wait"
  /\ WaitPreviousSave = "pending"
  /\ Raise("TimeoutError")
  /\ UNCHANGED <<config, resume_checkpoint_path, first_step, step, opt_cpu,
                 states_cpu, opt_repl, states_repl, checkpoint_extra,
                 checkpoint_writer, tasks, ckpt_file, kept, chrono, mw,
                 updates, acc,
                 upd, lr_iter, lrs, past>>

(* The thread pool: u.save_checkpoint(checkpoint, save_checkpoint_path, copy_step) *)

\* The process is alive: an exception out of main() ends it, pool threads included
Alive == pc # "failed"

\* What u.save_checkpoint reads from record i as it serializes it: 'opt' and
\* 'states' are the host copies made at the checkpoint step (np.array of
\* device 0's values), 'extra' is the checkpoint_extra dict itself.
\* (faulty variant: the record refers to the live device arrays)
RecordReadMutLiveWeights(i) ==
  [opt |-> opt_repl, states |-> states_repl, extra |-> checkpoint_extra]

RecordRead(i) ==
  [opt |-> tasks[i].opt, states |-> tasks[i].states, extra |-> checkpoint_extra]

\* A pool thread takes the oldest queued task and serializes its record
WriteStart(i) ==
  /\ Alive
  /\ tasks[i].status = "queued"
  /\ \A j \in 1..(i - 1) : tasks[j].status # "queued"
  /\ tasks' = [tasks EXCEPT ![i].status = "running",
                            ![i].opt = RecordRead(i).opt,
                            ![i].states = RecordRead(i).states,
                            ![i].extra = RecordRead(i).extra]
  /\ UNCHANGED <<config, pc, err, resume_checkpoint_path, first_step, step,
                 opt_cpu, states_cpu, opt_repl, states_repl, checkpoint_extra,
                 checkpoint_writer, ckpt_file, kept, chrono, mw, updates, acc,
                 upd, lr_iter, lrs, past>>

WriteFinish(i) ==
  /\ Alive
  /\ tasks[i].status = "running"
  /\ tasks' = [tasks EXCEPT ![i].status = "done"]
  /\ ckpt_file' = Ckpt(tasks[i].opt, tasks[i].states, tasks[i].extra)
  /\ kept' = IF tasks[i].copy_step # 0 THEN kept \cup {tasks[i].copy_step}
             ELSE kept
  /\ UNCHANGED <<config, pc, err, resume_checkpoint_path, first_step, step,
                 opt_cpu, states_cpu, opt_repl, states_repl, checkpoint_extra,
                 checkpoint_writer, chrono, mw, updates, acc,
                 upd, lr_iter, lrs, past>>

\* The write raises (an I/O failure); nothing retries it
WriteFail(i) ==
  /\ Alive
  /\ tasks[i].status = "running"
  /\ tasks' = [tasks EXCEPT ![i].status = "failed"]
  /\ UNCHANGED <<config, pc, err, resume_checkpoint_path, first_step, step,
                 opt_cpu, states_cpu, opt_repl, states_repl, checkpoint_extra,
                 checkpoint_writer, ckpt_file, kept, chrono, mw, updates, acc,
                 upd, lr_iter, lrs, past>>

(* Reporting, validation, few-shot evaluation *)

\* A scalar computed on the devices, whose value the model does not follow
DeviceValue == [kind |-> "device", num |-> 0, den |-> 0]

Measure(log, name, val) == Append(log, [step |-> step, name |-> name, val |-> val])

\* Report training progress, on host 0; chrono.tick accounts the train time
ReportProgress ==
  /\ pc = "report"
  /\ IF itstime(step, config.log_training_steps, config.total_steps, 0)
       THEN /\ mw' = [mw EXCEPT !.log = Measure(@, "training_loss", DeviceValue)]
            /\ chrono' = [chrono EXCEPT
                            !.accum_train_time = @ + (step - chrono.prev_step),
                            !.prev_step = step]
       ELSE UNCHANGED <<mw, chrono>>
  /\ pc' = "eval"
  /\ UNCHANGED <<config, err, resume_checkpoint_path, first_step, step, opt_cpu,
                 states_cpu, opt_repl, states_repl, checkpoint_extra,
                 checkpoint_writer, tasks, ckpt_file, kept, updates, acc,
                 upd, lr_iter, lrs, past>>

EvalSkip ==
  /\ pc = "eval"
  /\ ~itstime(step, config.log_eval_steps, config.total_steps, AnyHost)
  /\ pc' = "fewshot"
  /\ UNCHANGED <<config, err, resume_checkpoint_path, first_step, step, opt_cpu,
                 states_cpu, opt_repl, states_repl, checkpoint_extra,
                 checkpoint_writer, tasks, ckpt_file, kept, chrono, mw,
                 updates, acc,
                 upd, lr_iter, lrs, past>>

\* write_note('Evaluating on the validation set...'); chrono.pause()
EvalBegin ==
  /\ pc = "eval"
  /\ itstime(step, config.log_eval_steps, config.total_steps, AnyHost)
  /\ chrono' = [chrono EXCEPT !.paused = TRUE]
  /\ pc' = "eval_run"
  /\ UNCHANGED <<config, err, resume_checkpoint_path, first_step, step, opt_cpu,
                 states_cpu, opt_repl, states_repl, checkpoint_extra,
                 checkpoint_writer, tasks, ckpt_file, kept, mw, updates, acc,
                 upd, lr_iter, lrs, past>>

\* chrono.resume() once every validation split is reported
\* (faulty variant: the chronometer is left paused)
ChronoAfterEvalMutNoResume == chrono

ChronoAfterEval == [chrono EXCEPT !.paused = FALSE]

\* for val_name, (val_iter, val_steps) in val_ds.items(): the measurements
\* written, up to the first split whose division raises
RECURSIVE ValReport(_, _)
ValReport(i, log) ==
  IF i > Len(config.val_ds) THEN [log |-> log, raised |-> FALSE]
  ELSE IF ValLoss(config.val_ds[i]).kind = "ZeroDivisionError"
         THEN [log |-> log, raised |-> TRUE]
         ELSE ValReport(i + 1,
                        Measure(Measure(log, "prec@1", Prec(config.val_ds[i])),
                                "loss", ValLoss(config.val_ds[i])))

EvalRun ==
  /\ pc = "eval_run"
  /\ mw' = [mw EXCEPT !.log = ValReport(1, mw.log).log]
  /\ IF ValReport(1, mw.log).raised
       THEN /\ Raise("ZeroDivisionError")
            /\ UNCHANGED chrono
       ELSE /\ chrono' = ChronoAfterEval
            /\ pc' = "fewshot"
            /\ err' = err
  /\ UNCHANGED <<config, resume_checkpoint_path, first_step, step, opt_cpu,
                 states_cpu, opt_repl, states_repl, checkpoint_extra,
                 checkpoint_writer, tasks, ckpt_file, kept, updates, acc,
                 upd, lr_iter, lrs, past>>

\* if 'fewshot' in config: ... if u.itstime(step, config.fewshot.log_steps, total_steps)
\* (faulty variant: the few-shot evaluation is gated on host 0)
FewshotDueMutHostZero ==
  /\ config.fewshot_log_steps # 0
  /\ itstime(step, config.fewshot_log_steps, config.total_steps, 0)

FewshotDue ==
  /\ config.fewshot_log_steps # 0
  /\ itstime(step, config.fewshot_log_steps, config.total_steps, AnyHost)

\* No few-shot evaluation at this step: mw.step_end()
FewshotSkip ==
  /\ pc = "fewshot"
  /\ ~FewshotDue
  /\ pc' = "loop"
  /\ UNCHANGED <<config, err, resume_checkpoint_path, first_step, step, opt_cpu,
                 states_cpu, opt_repl, states_repl, checkpoint_extra,
                 checkpoint_writer, tasks, ckpt_file, kept, chrono, mw,
                 updates, acc,
                 upd, lr_iter, lrs, past>>

FewshotBegin ==
  /\ pc = "fewshot"
  /\ FewshotDue
  /\ chrono' = [chrono EXCEPT !.paused = TRUE]
  /\ pc' = "fewshot_run"
  /\ UNCHANGED <<config, err, resume_checkpoint_path, first_step, step, opt_cpu,
                 states_cpu, opt_repl, states_repl, checkpoint_extra,
                 checkpoint_writer, tasks, ckpt_file, kept, mw, updates, acc,
                 upd, lr_iter, lrs, past>>

\* fewshotter.run_all; walk_results(mw.measure, ...); chrono.resume(); mw.step_end()
FewshotRun ==
  /\ pc = "fewshot_run"
  /\ mw' = [mw EXCEPT !.log = Measure(@, "fewshot", DeviceValue)]
  /\ chrono' = [chrono EXCEPT !.paused = FALSE]
  /\ pc' = "loop"
  /\ UNCHANGED <<config, err, resume_checkpoint_path, first_step, step, opt_cpu,
                 states_cpu, opt_repl, states_repl, checkpoint_extra,
                 checkpoint_writer, tasks, ckpt_file, kept, updates, acc,
                 upd, lr_iter, lrs, past>>

(* After the loop *)

\* pool.close(); pool.join(): returns when every task handed to the pool has run
\* (faulty variant: main returns without joining the pool)
PoolJoinedMutNoJoin == TRUE

PoolJoined == \A i \in 1..Len(tasks) : tasks[i].status \in {"done", "failed"}

\* write_note('Done!'); pool.close(); pool.join(); mw.close(); return
Finish ==
  /\ pc = "finish"
  /\ PoolJoined
  /\ mw' = [mw EXCEPT !.closed = TRUE]
  /\ pc' = "done"
  /\ UNCHANGED <<config, err, resume_checkpoint_path, first_step, step, opt_cpu,
                 states_cpu, opt_repl, states_repl, checkpoint_extra,
                 checkpoint_writer, tasks, ckpt_file, kept, chrono, updates,
                 acc,
                 upd, lr_iter, lrs, past>>

----------------------------------------------------------------------------
(* The training run *)

MainStep ==
  \/ Startup
  \/ TrainStep
  \/ LoopEnd
  \/ CheckpointSkip
  \/ CheckpointBegin
  \/ CheckpointSubmit
  \/ CheckpointWriteError
  \/ CheckpointTimeout
  \/ ReportProgress
  \/ EvalSkip
  \/ EvalBegin
  \/ EvalRun
  \/ FewshotSkip
  \/ FewshotBegin
  \/ FewshotRun
  \/ Finish

WriterStart == \E i \in 1..Len(tasks) : WriteStart(i)

WriterEnd == \E i \in 1..Len(tasks) : WriteFinish(i) \/ WriteFail(i)

Next == MainStep \/ WriterStart \/ WriterEnd

Spec == Init /\ [][Next]_vars

\* The process does not stop while the main thread or a pool thread can run
FairSpec == Spec /\ WF_vars(Next)

----------------------------------------------------------------------------
(* Properties of the training run *)

InFlight == {i \in 1..Len(tasks) : tasks[i].status \in {"queued", "running"}}

\* C1: at most one checkpoint write is in flight at any time: a save is
\* handed to the pool only after the previous one has completed, so two
\* executions of save_checkpoint never overlap.
C1_AtMostOneInFlight == Cardinality(InFlight) <= 1

\* A second save is being written, after the first one has completed
C1_Witness ==
  /\ Len(tasks) >= 2
  /\ tasks[Len(tasks)].status = "running"
  /\ tasks[1].status = "done"

\* A checkpoint exists at the active output path (save_checkpoint_path is
\* active only with config.checkpoint_steps set)
OutputCheckpointExists == config.checkpoint_steps # 0 /\ config.out_file.exists

Started == pc # "init" /\ err # "AssertionError"

\* C2: resume precedence is first-match-wins: (a) a checkpoint at the active
\* output path is the one resumed, also when config.resume is set; (b) else
\* config.resume is resumed; (c) else a set config.model_init fails start-up
\* before any training step; (d) else training starts fresh. model_init is
\* never consulted when (a) or (b) applies.
C2_ResumePrecedence ==
  Started =>
    /\ OutputCheckpointExists =>
         /\ resume_checkpoint_path = "out"
         /\ first_step = config.out_file.opt
         /\ err # "ValueError"
    /\ (~OutputCheckpointExists /\ config.resume) =>
         /\ resume_checkpoint_path = "resume"
         /\ config.resume_file.exists => first_step = config.resume_file.opt
         /\ err # "ValueError"
    /\ (~OutputCheckpointExists /\ ~config.resume /\ config.model_init) =>
         /\ pc = "failed" /\ err = "ValueError"
         /\ updates = <<>>
    /\ (~OutputCheckpointExists /\ ~config.resume /\ ~config.model_init) =>
         /\ resume_checkpoint_path = "none"
         /\ first_step = 0
         /\ err \notin {"ValueError", "MissingCheckpointError"}

\* Both an output-path checkpoint and a config.resume checkpoint exist, with
\* model_init set too, and training runs from the output-path checkpoint
C2_Witness ==
  /\ OutputCheckpointExists
  /\ config.resume /\ config.resume_file.exists
  /\ config.resume_file.opt # config.out_file.opt
  /\ config.model_init
  /\ pc = "checkpoint"
  /\ first_step = config.out_file.opt

LoopEnded == pc \in {"finish", "done"}

\* C3 as stated: the step counter's value when the loop ends is the
\* configured total_steps.
C3_TerminalIsTotalSteps == LoopEnded => step = config.total_steps

\* C3, amended: the Update Step runs exactly once for each step of
\* first_step+1 .. total_steps, in that order, the optimizer's step counter
\* following the loop's; when the loop ends the counter is total_steps if
\* first_step <= total_steps, and is still first_step, no Update Step having
\* run, if the checkpoint resumed was taken beyond total_steps.
C3_StepsInOrder ==
  /\ Len(updates) = step - first_step
  /\ \A i \in 1..Len(updates) : updates[i] = first_step + i
  /\ pc \notin {"init", "failed"} => opt_repl = step
  /\ LoopEnded =>
       step = IF first_step <= config.total_steps THEN config.total_steps
              ELSE first_step

\* A resumed run has ended after running the remaining steps
C3_Witness ==
  /\ pc = "done"
  /\ first_step >= 1
  /\ step = config.total_steps
  /\ Len(updates) >= 2

Terminated == pc \in {"done", "failed"}

\* C4: the run terminates, and the flush of the checkpoint writer and of
\* the measurement writer is its final action: when main returns no write
\* handed to the pool is in flight and the measurement writer is closed, and
\* nothing is updated, submitted or measured after that.
C4_TerminatesFlushed ==
  /\ <>Terminated
  /\ [](pc = "done" => (InFlight = {} /\ mw.closed))
  /\ [][pc = "done" => (updates' = updates /\ tasks' = tasks /\ mw' = mw)]_vars

\* main has returned after a run that trained, saved and measured
C4_Witness ==
  /\ pc = "done"
  /\ Len(tasks) >= 2
  /\ Len(updates) >= 2
  /\ Len(mw.log) >= 1

\* C6: the optimizer state and the auxiliary state always belong to the
\* same training step: on the devices, in the host copies, in every record
\* handed to the writer and in the checkpoint file.
C6_SameStep ==
  /\ opt_repl = states_repl
  /\ opt_cpu = states_cpu
  /\ \A i \in 1..Len(tasks) : tasks[i].opt = tasks[i].states
  /\ ckpt_file.opt = ckpt_file.states

\* A resumed run has trained on and written a later checkpoint
C6_Witness ==
  /\ resume_checkpoint_path # "none"
  /\ \E i \in 1..Len(tasks) :
       /\ tasks[i].status = "done"
       /\ tasks[i].opt > first_step
       /\ ckpt_file.opt = tasks[i].opt

\* C7: a validation split whose masked example count is zero (an empty
\* split, or batches all masked out) is guarded: the evaluation never
\* divides by zero, and training continues.
C7_ZeroCountGuarded ==
  /\ err # "ZeroDivisionError"
  /\ \A i \in 1..Len(mw.log) : mw.log[i].val.kind \notin {"nan", "inf"}

\* The path start-up chooses for resuming
ChosenFile ==
  IF OutputCheckpointExists THEN config.out_file
  ELSE IF config.resume THEN config.resume_file
  ELSE NoCkpt

\* C8: an absent checkpoint load path is recoverable: when the path chosen
\* for resuming does not exist, start-up does not load it and proceeds
\* with fresh initialization (first_step = 0) instead of failing.
C8_AbsentPathFallsBack ==
  (Started /\ (OutputCheckpointExists \/ config.resume) /\ ~ChosenFile.exists) =>
    /\ err # "MissingCheckpointError"
    /\ resume_checkpoint_path = "none"
    /\ first_step = 0

\* C9: every failed asynchronous checkpoint write surfaces as a fatal
\* error at the next blocking wait: no run finishes as successful with a
\* failed write unreported.
C9_FailedWriteSurfaces ==
  pc = "done" => \A i \in 1..Len(tasks) : tasks[i].status # "failed"

\* The main thread is inside a bracket: between a chrono.pause() and the
\* chrono.resume() that follows it
InBracket(p) == p \in {"ckpt_wait", "eval_run", "fewshot_run"}

\* C12 as stated: every checkpoint save runs entirely between a
\* chrono.pause() and the matching chrono.resume(): no write of a checkpoint
\* record runs while the chronometer is running.
C12_SaveEntirelyPaused ==
  \A i \in 1..Len(tasks) : tasks[i].status = "running" => chrono.paused

\* C12, amended: the main thread's non-training work is bracketed: the wait
\* for the previous write, the host copy and the hand-off of a checkpoint
\* record, every validation and every few-shot evaluation happen while the
\* chronometer is paused; chrono.pause() is only called on a running
\* chronometer and chrono.resume() on a paused one, so they alternate; the
\* chronometer is running whenever an Update Step executes. (The write of
\* the record on the pool thread is outside the bracket.)
C12_ChronoBrackets ==
  /\ [](InBracket(pc) => chrono.paused)
  /\ [](pc \notin {"ckpt_wait", "eval_run", "fewshot_run", "failed"}
          => ~chrono.paused)
  /\ [][/\ (~InBracket(pc) /\ InBracket(pc')) =>
            (~chrono.paused /\ chrono'.paused)
        /\ (InBracket(pc) /\ pc' \notin {pc, "failed"}) =>
            (chrono.paused /\ ~chrono'.paused)
        /\ chrono'.paused # chrono.paused => InBracket(pc) # InBracket(pc')
        /\ updates' # updates => (~chrono.paused /\ ~chrono'.paused)
        /\ (Len(tasks') > Len(tasks) \/ (pc # "init" /\ opt_cpu' # opt_cpu))
             => chrono.paused
        /\ (\E i \in 1..Len(mw'.log) :
               i > Len(mw.log)
                 /\ mw'.log[i].name \in {"prec@1", "loss", "fewshot"})
             => chrono.paused]_vars

\* After a bracketed save, validation and few-shot evaluation at step 1 the
\* next Update Step has run, while the record of step 1 is being written
C12_Witness ==
  /\ pc = "checkpoint"
  /\ Len(updates) >= 2
  /\ ~chrono.paused
  /\ \E i \in 1..Len(tasks) : tasks[i].status = "running" /\ tasks[i].step < step
  /\ \E i \in 1..Len(mw.log) : mw.log[i].name = "prec@1"
  /\ \E i \in 1..Len(mw.log) : mw.log[i].name = "fewshot"

\* An interval predicate of step, interval and total_steps alone
StepDue(s, n, total) == n # 0 /\ (s % n = 0 \/ s = total \/ s = 1)

PastCheckpoint(s) ==
  \/ s < step
  \/ /\ pc \notin {"checkpoint", "ckpt_wait"}
     /\ err \notin {"TimeoutError", "CheckpointWriteError"}

\* C14: retained copies are never missed: with keep_checkpoint_steps set,
\* start-up fails unless checkpoint_steps is set and divides it; given that,
\* on host 0 every step run at which the keep-interval predicate holds has
\* a checkpoint saved with that step as its retain step, and a save at any
\* other step has none.
C14_RetainedCopies ==
  /\ (/\ config.keep_checkpoint_steps # 0
      /\ ~(/\ config.checkpoint_steps # 0
           /\ config.keep_checkpoint_steps % config.checkpoint_steps = 0)
      /\ pc # "init")
       => (pc = "failed" /\ err = "AssertionError" /\ updates = <<>>)
  /\ (config.host = 0 /\ Started) =>
       /\ \A k \in 1..Len(updates) :
            (/\ PastCheckpoint(updates[k])
             /\ StepDue(updates[k], config.keep_checkpoint_steps,
                        config.total_steps))
              => \E i \in 1..Len(tasks) :
                   tasks[i].step = updates[k] /\ tasks[i].copy_step = updates[k]
       /\ \A i \in 1..Len(tasks) :
            tasks[i].copy_step =
              IF StepDue(tasks[i].step, config.keep_checkpoint_steps,
                         config.total_steps)
                THEN tasks[i].step ELSE 0
       /\ \A s \in kept :
            StepDue(s, config.keep_checkpoint_steps, config.total_steps)

\* Checkpoints were saved at every step, the one in the middle without a
\* retain step, and the copies of the first and the last step are kept
C14_Witness ==
  /\ config.host = 0
  /\ config.keep_checkpoint_steps > config.checkpoint_steps
  /\ config.checkpoint_steps # 0
  /\ pc = "done"
  /\ Len(tasks) = MaxSteps
  /\ tasks[1].copy_step = 1
  /\ tasks[2].copy_step = 0
  /\ tasks[Len(tasks)].copy_step = config.total_steps
  /\ kept = {1, config.total_steps}

\* Start-up has chosen the initial state and built the loop's iterators
LoopReady ==
  pc # "init" /\ err \notin {"AssertionError", "MissingCheckpointError", "ValueError"}

\* How many values a range(a, b) still yields
RangeLen(a, b) == IF b > a THEN b - a ELSE 0

\* C15: the learning rate the Update Step is given at loop step s is the
\* schedule at index s-1, whatever step the run started from, so a resumed
\* run uses at each step the rate an uninterrupted run uses there; the
\* learning-rate stream and the step range span the same number of values,
\* total_steps - first_step, and are exhausted together.
C15_LearningRateIndex ==
  /\ Len(lrs) = Len(updates)
  /\ \A i \in 1..Len(updates) : lrs[i] = lr_fn(updates[i] - 1)
  /\ LoopReady =>
       /\ lr_iter.stop - (lr_iter.next - Len(lrs)) = config.total_steps - first_step
       /\ RangeLen(lr_iter.next, lr_iter.stop) = RangeLen(step + 1, config.total_steps + 1)
  /\ LoopEnded =>
       /\ RangeLen(lr_iter.next, lr_iter.stop) = 0
       /\ RangeLen(step + 1, config.total_steps + 1) = 0

\* A run resumed at step 1 has run steps 2 and 3 with the schedule's
\* values at the indices 1 and 2
C15_Witness ==
  /\ pc = "done"
  /\ first_step = 1
  /\ updates = <<2, 3>>
  /\ lrs = <<lr_fn(1), lr_fn(2)>>
  /\ lr_fn(1) # lr_fn(2)

\* C16: a checkpoint record is never modified while its write is in
\* flight: what the writer serializes as optimizer and auxiliary state is
\* the state of the checkpoint step, whatever Update Steps have run since,
\* and as 'extra' the value the shared checkpoint_extra dict was given at
\* the hand-off; the dict is only assigned while no write is in flight,
\* after the wait for the previous write has returned.
C16_RecordStableInFlight ==
  /\ [](\A i \in 1..Len(tasks) :
          tasks[i].status # "queued" =>
            /\ tasks[i].opt = tasks[i].step
            /\ tasks[i].states = tasks[i].step
            /\ tasks[i].extra = tasks[i].handoff_extra)
  /\ [](\A i \in 1..Len(tasks) :
          (tasks[i].status = "done" /\ i = Len(tasks)) =>
            ckpt_file = Ckpt(tasks[i].step, tasks[i].step, tasks[i].handoff_extra))
  /\ [][InFlight # {} =>
          /\ checkpoint_extra' = checkpoint_extra
          /\ Len(tasks') = Len(tasks)
          /\ \A i \in InFlight :
               /\ tasks'[i].opt = tasks[i].opt
               /\ tasks'[i].states = tasks[i].states]_vars

\* The second record is being written while step 3 has already updated
\* the state; the dict was reassigned between the two hand-offs
C16_Witness ==
  /\ Len(tasks) = 2
  /\ tasks[1].status = "done"
  /\ tasks[2].status = "running"
  /\ tasks[2].handoff_extra # tasks[1].handoff_extra
  /\ step > tasks[2].step
  /\ opt_repl > tasks[2].opt

----------------------------------------------------------------------------
(* The gradient accumulator on its own: one call per behaviour *)

\* A run without checkpointing, few-shot evaluation or resuming, that
\* trains for one step and validates at it
BaseConfig ==
  [total_steps |-> 1, checkpoint_steps |-> 0, keep_checkpoint_steps |-> 0,
   checkpoint_timeout |-> 1, log_training_steps |-> 2, log_eval_steps |-> 2,
   fewshot_log_steps |-> 0, host |-> 0, resume |-> FALSE,
   resume_file |-> NoCkpt, model_init |-> FALSE, out_file |-> NoCkpt,
   val_ds |-> <<PlainSplit>>]

ParamChoices == {<<1, 0>>, <<2, 1>>}

ImageValues == {1, 2}

LabelValues == {0, 1}

AccInputs ==
  UNION {[phase : {"in"}, params : ParamChoices, states : {0},
          images : [1..n -> ImageValues], labels : [1..n -> LabelValues],
          accum_steps : 0..MaxBatch] : n \in 1..MaxBatch}

InitAccum ==
  /\ InitMain(BaseConfig)
  /\ acc \in AccInputs
  /\ upd = NoUpd

\* The batch size is divisible by accum_steps (or accum_steps is not above 1)
AccumulateCall ==
  /\ acc.phase = "in"
  /\ acc.accum_steps > 1 => Len(acc.images) % acc.accum_steps = 0
  /\ acc' = [phase |-> "out", params |-> acc.params, states |-> acc.states,
             images |-> acc.images, labels |-> acc.labels,
             accum_steps |-> acc.accum_steps,
             result |-> accumulate_gradient_with_states(
                          acc.params, acc.states, acc.images, acc.labels,
                          acc.accum_steps)]
  /\ UNCHANGED <<mainVars, upd>>

\* assert images.shape[0] % accum_steps == 0
AccumulateBadSteps ==
  /\ acc.phase = "in"
  /\ acc.accum_steps > 1
  /\ Len(acc.images) % acc.accum_steps # 0
  /\ acc' = [acc EXCEPT !.phase = "AssertionError"]
  /\ UNCHANGED <<mainVars, upd>>

NextAccum == AccumulateCall \/ AccumulateBadSteps

SpecAccum == InitAccum /\ [][NextAccum]_vars

\* C5: for every accumulation factor N dividing the batch size, the
\* accumulator returns the loss and the gradient that the loss-and-gradient
\* function gives on the full batch (the N = 1 result), every example being
\* folded into the auxiliary state exactly once.
C5_AccumEqualsFullBatch ==
  acc.phase = "out" =>
    LET full == loss_and_grad_fn(acc.params, acc.states, acc.images, acc.labels)
    IN  /\ REq(acc.result.l, full.l)
        /\ REq(acc.result.g[1], full.g[1])
        /\ REq(acc.result.g[2], full.g[2])
        /\ acc.result.s = acc.states + Len(acc.images)

\* A batch of four different examples accumulated over two sub-batches
C5_Witness ==
  /\ acc.phase = "out"
  /\ acc.accum_steps = 2
  /\ Len(acc.images) = 4
  /\ acc.images[1] # acc.images[3]
  /\ acc.labels[2] # acc.labels[4]
  /\ acc.result.l[1] # 0

----------------------------------------------------------------------------
(* The validation report, over every small validation split *)

Splits == UNION {[1..n -> Examples] : n \in 0..MaxVal}

InitEval ==
  /\ \E split \in Splits : InitMain([BaseConfig EXCEPT !.val_ds = <<split>>])
  /\ acc = NoAcc
  /\ upd = NoUpd

\* The steps of a run under BaseConfig
NextEval ==
  \/ Startup
  \/ TrainStep
  \/ CheckpointSkip
  \/ ReportProgress
  \/ EvalBegin
  \/ EvalRun
  \/ FewshotSkip
  \/ LoopEnd
  \/ Finish

SpecEval == InitEval /\ [][NextEval]_vars

\* The entries of a split that count: mask 1 and a label row not all zero
Unmasked(split) ==
  {k \in 1..Len(split) :
     split[k].mask = 1 /\ \E j \in DOMAIN split[k].labels : split[k].labels[j] # 0}

\* The top-1 prediction: the first class with the largest logit
Top1(e) ==
  CHOOSE j \in DOMAIN e.logits :
    /\ \A m \in DOMAIN e.logits : e.logits[m] <= e.logits[j]
    /\ \A m \in DOMAIN e.logits : m < j => e.logits[m] < e.logits[j]

CorrectOf(split) == {k \in Unmasked(split) : split[k].labels[Top1(split[k])] = 1}

\* The validation of the current step has run
Evaluated ==
  /\ pc \in {"fewshot", "fewshot_run", "loop", "finish", "done"}
  /\ updates # <<>>
  /\ itstime(step, config.log_eval_steps, config.total_steps, AnyHost)

\* C10: the accuracy reported for a validation split is the number of
\* correct top-1 predictions among the unmasked entries over the number of
\* unmasked entries, summed over all replicas and batches; masked entries
\* count in neither, so correct <= count.
C10_ReportedAccuracy ==
  LET split == config.val_ds[1]
      reported == {i \in 1..Len(mw.log) : mw.log[i].name = "prec@1"}
  IN  /\ \A i \in reported :
           mw.log[i].val.kind = "value" =>
             /\ mw.log[i].val.num = Cardinality(CorrectOf(split))
             /\ mw.log[i].val.den = Cardinality(Unmasked(split))
             /\ mw.log[i].val.num <= mw.log[i].val.den
      /\ (Evaluated /\ Unmasked(split) # {}) =>
           \E i \in reported : mw.log[i].val.kind = "value"

\* Two batches, the second padded, with masked and wrong entries: 2 of 3
C10_Witness ==
  /\ pc = "done"
  /\ Len(config.val_ds[1]) = MaxVal
  /\ \E i \in 1..Len(mw.log) :
       /\ mw.log[i].name = "prec@1"
       /\ mw.log[i].val.num = 2
       /\ mw.log[i].val.den = 3

----------------------------------------------------------------------------
(* The Update Step's parameter update: optimizer update, then weight decay *)

RMul(a, b) == <<a[1] * b[1], a[2] * b[2]>>

RSub(a, b) == <<a[1] * b[2] - b[1] * a[2], a[2] * b[2]>>

RQuot(a, b) == <<a[1] * b[2], a[2] * b[1]>>

\* Parameter names are paths of name parts ('head/output_layer/kernel'); a
\* pattern is a sequence of name parts and wildcards ".*".
ParamNames ==
  {<<"embedding", "kernel">>, <<"embedding", "bias">>,
   <<"head", "output_layer", "kernel">>, <<"head", "output_layer", "bias">>,
   <<"cls">>}

\* '.*kernel.*'
KernelPattern == <<".*", "kernel", ".*">>

\* re.match(pattern, name): the pattern matches at the start of the name,
\* not necessarily up to its end
RECURSIVE re_match_from(_, _, _, _)
re_match_from(pattern, i, name, j) ==
  IF i > Len(pattern) THEN TRUE
  ELSE IF pattern[i] = ".*"
         THEN \E k \in j..(Len(name) + 1) : re_match_from(pattern, i + 1, name, k)
         ELSE /\ j <= Len(name)
              /\ name[j] = pattern[i]
              /\ re_match_from(pattern, i + 1, name, j + 1)

re_match(pattern, name) == re_match_from(pattern, 1, name, 1)

\* decay_rules = config.get('weight_decay', []) or []; a number stands for
\* the single rule on the kernels
\* (faulty variant: a number decays every parameter)
decay_rulesMutAllParams(cfg) ==
  IF cfg.weight_decay.kind = "none" THEN <<>>
  ELSE IF cfg.weight_decay.kind = "number"
         THEN IF cfg.weight_decay.value[1] = 0 THEN <<>>
              ELSE <<[pattern |-> <<".*">>, wd |-> cfg.weight_decay.value]>>
         ELSE cfg.weight_decay.rules

decay_rules(cfg) ==
  IF cfg.weight_decay.kind = "none" THEN <<>>
  ELSE IF cfg.weight_decay.kind = "number"
         THEN IF cfg.weight_decay.value[1] = 0 THEN <<>>
              ELSE <<[pattern |-> KernelPattern, wd |-> cfg.weight_decay.value]>>
         ELSE cfg.weight_decay.rules

\* sched_m = lr/config.lr.base if config.get('weight_decay_decouple') else lr
sched_m(lr, cfg) ==
  IF cfg.weight_decay_decouple THEN RQuot(lr, cfg.lr_base) ELSE lr

\* decay_fn(v, wd) = (1.0 - sched_m * wd) * v
decay_fn(v, wd, m) == RMul(RSub(<<1, 1>>, RMul(m, wd)), v)

\* u.tree_map_with_regex(decay_fn, tree, rules): the first rule whose pattern
\* matches a parameter's name is applied to it, a parameter no rule matches
\* is left as it is
tree_map_with_regex(tree, rules, m) ==
  [n \in DOMAIN tree |->
     IF \E i \in 1..Len(rules) : re_match(rules[i].pattern, n)
       THEN LET first == CHOOSE i \in 1..Len(rules) :
                           /\ re_match(rules[i].pattern, n)
                           /\ \A j \in 1..(i - 1) : ~re_match(rules[j].pattern, n)
            IN  decay_fn(tree[n], rules[first].wd, m)
       ELSE tree[n]]

\* opt.apply_gradient(g, learning_rate=lr): the optimizer's update of the
\* parameters, here the plain gradient-descent rule
apply_gradient(target, g, lr) ==
  [n \in DOMAIN target |-> RSub(target[n], RMul(lr, g[n]))]

\* opt = opt.apply_gradient(...); opt = opt.replace(target=tree_map_with_regex(...))
update_target(target, g, lr, cfg) ==
  tree_map_with_regex(apply_gradient(target, g, lr), decay_rules(cfg),
                      sched_m(lr, cfg))

ParamValues == {<<1, 1>>, <<-3, 2>>}

GradValues == {<<2, 1>>, <<-1, 4>>}

LrValues == {<<1, 10>>, <<1, 2>>}

WdValue == <<1, 5>>

NoRules == <<>>

\* config.weight_decay: absent, a number, or a list of (pattern, value) rules
WeightDecayChoices ==
  {[kind |-> "none", value |-> <<0, 1>>, rules |-> NoRules],
   [kind |-> "number", value |-> <<0, 1>>, rules |-> NoRules],
   [kind |-> "number", value |-> WdValue, rules |-> NoRules],
   [kind |-> "rules", value |-> <<0, 1>>, rules |-> NoRules],
   [kind |-> "rules", value |-> <<0, 1>>,
    rules |-> <<[pattern |-> <<".*", "bias">>, wd |-> WdValue]>>],
   [kind |-> "rules", value |-> <<0, 1>>,
    rules |-> <<[pattern |-> <<"head">>, wd |-> <<1, 2>>],
                [pattern |-> KernelPattern, wd |-> WdValue]>>]}

UpdInputs ==
  [phase  : {"in"},
   target : [ParamNames -> ParamValues],
   g      : {[n \in ParamNames |-> gv] : gv \in GradValues},
   lr     : LrValues,
   cfg    : [weight_decay : WeightDecayChoices,
             weight_decay_decouple : BOOLEAN,
             lr_base : {<<1, 10>>}]]

InitUpdate ==
  /\ InitMain(BaseConfig)
  /\ acc = NoAcc
  /\ upd \in UpdInputs

UpdateCall ==
  /\ upd.phase = "in"
  /\ upd' = [phase |-> "out", target |-> upd.target, g |-> upd.g,
             lr |-> upd.lr, cfg |-> upd.cfg,
             result |-> update_target(upd.target, upd.g, upd.lr, upd.cfg)]
  /\ UNCHANGED <<mainVars, acc>>

NextUpdate == UpdateCall

SpecUpdate == InitUpdate /\ [][NextUpdate]_vars

\* The value the optimizer update alone gives parameter n
AfterOptimizer(n) == RSub(upd.target[n], RMul(upd.lr, upd.g[n]))

\* lr/base_lr with weight_decay_decouple, lr otherwise
EffectiveRate ==
  IF upd.cfg.weight_decay_decouple
    THEN <<upd.lr[1] * upd.cfg.lr_base[2], upd.lr[2] * upd.cfg.lr_base[1]>>
    ELSE upd.lr

\* v scaled by (1 - effective_rate * wd)
Decayed(v, wd) ==
  <<(EffectiveRate[2] * wd[2] - EffectiveRate[1] * wd[1]) * v[1],
    EffectiveRate[2] * wd[2] * v[2]>>

HasPart(n, part) == \E i \in 1..Len(n) : n[i] = part

\* C11: weight decay is applied after the optimizer update and only to the
\* parameters whose name matches a configured rule: a matching parameter is
\* the optimizer's value scaled by (1 - effective_rate * wd), effective_rate
\* being lr/base_lr with weight_decay_decouple and lr otherwise; any other
\* parameter keeps exactly the optimizer's value; a numeric weight_decay is
\* the single rule on '.*kernel.*', so kernels are decayed and biases not.
C11_WeightDecayByRule ==
  upd.phase = "out" =>
    \A n \in ParamNames :
      LET wdc == upd.cfg.weight_decay
          matching == {i \in 1..Len(wdc.rules) : re_match(wdc.rules[i].pattern, n)}
      IN  /\ wdc.kind = "none" => upd.result[n] = AfterOptimizer(n)
          /\ wdc.kind = "number" =>
               IF HasPart(n, "kernel")
                 THEN REq(upd.result[n], Decayed(AfterOptimizer(n), wdc.value))
                 ELSE upd.result[n] = AfterOptimizer(n)
          /\ wdc.kind = "rules" =>
               IF matching = {}
                 THEN upd.result[n] = AfterOptimizer(n)
                 ELSE \E i \in matching :
                        /\ \A j \in matching : i <= j
                        /\ REq(upd.result[n],
                               Decayed(AfterOptimizer(n), wdc.rules[i].wd))

\* A numeric weight decay with the decoupled rate has scaled a kernel and
\* left the bias beside it at the optimizer's value
C11_Witness ==
  /\ upd.phase = "out"
  /\ upd.cfg.weight_decay.kind = "number"
  /\ upd.cfg.weight_decay.value = WdValue
  /\ upd.cfg.weight_decay_decouple
  /\ upd.lr # upd.cfg.lr_base
  /\ ~REq(upd.result[<<"embedding", "kernel">>],
          AfterOptimizer(<<"embedding", "kernel">>))
  /\ upd.result[<<"embedding", "bias">>] = AfterOptimizer(<<"embedding", "bias">>)
  /\ upd.result[<<"embedding", "bias">>][1] # 0

----------------------------------------------------------------------------
(* A job that is interrupted and started again on the same output directory *)

\* The runs that save checkpoints or resume, on host 0, without evaluations
ResumeConfigs ==
  {c \in Configs :
     /\ c.host = 0
     /\ c.keep_checkpoint_steps = 0
     /\ c.log_eval_steps = 0
     /\ c.fewshot_log_steps = 0
     /\ ~c.model_init
     /\ c.val_ds = <<PlainSplit>>
     /\ ~c.resume => c.resume_file = NoCkpt}

InitResume ==
  /\ \E c \in ResumeConfigs : InitMain(c)
  /\ acc = NoAcc
  /\ upd = NoUpd

\* The step of the last checkpoint this run has written completely, 0 if none
LastSaved ==
  IF \E i \in 1..Len(tasks) : tasks[i].status = "done"
    THEN tasks[CHOOSE i \in 1..Len(tasks) :
                 /\ tasks[i].status = "done"
                 /\ \A j \in (i + 1)..Len(tasks) : tasks[j].status # "done"].step
    ELSE 0

\* The process is stopped at any point (a pre-emption, or a new start after
\* the run ended) and main() is entered again with the same configuration:
\* only the files survive, a write that was under way is lost.
Interrupt ==
  /\ Len(past) < MaxRestarts
  /\ pc # "init"
  /\ past' = Append(past, [first |-> first_step, last |-> step,
                           saved |-> LastSaved,
                           started |-> (updates # <<>> \/ pc \in {"loop", "finish", "done"})])
  /\ pc' = "init"
  /\ err' = ""
  /\ resume_checkpoint_path' = "none"
  /\ first_step' = 0
  /\ step' = 0
  /\ opt_cpu' = 0 /\ states_cpu' = 0
  /\ opt_repl' = 0 /\ states_repl' = 0
  /\ checkpoint_extra' = 0
  /\ checkpoint_writer' = 0
  /\ tasks' = <<>>
  /\ chrono' = [paused |-> FALSE, accum_train_time |-> 0, prev_step |-> 0]
  /\ mw' = [closed |-> FALSE, log |-> <<>>]
  /\ updates' = <<>>
  /\ lr_iter' = LrIter(0, 0)
  /\ lrs' = <<>>
  /\ UNCHANGED <<config, ckpt_file, kept, acc, upd>>

NextResume ==
  \/ Startup
  \/ TrainStep
  \/ LoopEnd
  \/ CheckpointSkip
  \/ CheckpointBegin
  \/ CheckpointSubmit
  \/ CheckpointWriteError
  \/ CheckpointTimeout
  \/ ReportProgress
  \/ EvalSkip
  \/ FewshotSkip
  \/ Finish
  \/ WriterStart
  \/ WriterEnd
  \/ Interrupt

SpecResume == InitResume /\ [][NextResume]_vars

\* The run before the current one
PrevRun == past[Len(past)]

\* C17: save/resume preserves step continuity: a checkpoint written at loop
\* step s stores the optimizer step counter s; a run started after an
\* interruption takes the step of the last checkpoint saved as its
\* first_step and goes on at the step after it, so that no step is skipped
\* and only the steps after that checkpoint are run again.
C17_StepContinuity ==
  /\ \A i \in 1..Len(tasks) : tasks[i].opt = tasks[i].step
  /\ (\E i \in 1..Len(tasks) : tasks[i].status = "done") => ckpt_file.opt = LastSaved
  /\ \A i \in 1..Len(updates) : updates[i] = first_step + i
  /\ (Len(past) >= 1 /\ LoopReady) =>
       /\ PrevRun.saved # 0 =>
            /\ resume_checkpoint_path = "out"
            /\ first_step = PrevRun.saved
       /\ (PrevRun.saved = 0 /\ PrevRun.started) => first_step = PrevRun.first
       /\ PrevRun.started =>
            /\ first_step <= PrevRun.last
            /\ \A i \in 1..Len(updates) : updates[i] > PrevRun.saved

\* A run was interrupted after step 2, its last completed checkpoint being
\* that of step 1; the next run has run steps 2 and 3
C17_Witness ==
  /\ Len(past) = 1
  /\ PrevRun.first = 0
  /\ PrevRun.saved = 1
  /\ PrevRun.last = 2
  /\ first_step = 1
  /\ updates = <<2, 3>>
  /\ pc = "done"

====
